---------------------------- MODULE Spec2Model ----------------------------
(***************************************************************************)
(* A model of the frame transport of RUBIX26_15_ICodeSpeed:                *)
(*                                                                         *)
(*   - SharedFrameBuffer (Mustan_ML_Stuff/modules/shared_frame_buffer.py): *)
(*     a memory-mapped data file holding a 24-byte header and a payload,   *)
(*     and a 4-byte flag file.  Specification Spec follows the data file,  *)
(*     SpecFlag the flag file, SpecConc a write_frame() and a read_frame() *)
(*     that run side by side, SpecHeader the two readers on every header.  *)
(*   - CameraCapture (Mustan_ML_Stuff/eye_pipeline/modules/camera_input.py)*)
(*     a capture handle with a background thread.  Specification           *)
(*     SpecCamera, and SpecCameraLive with fairly scheduled threads.       *)
(*                                                                         *)
(* Both parts live in one module and share the tuple vars; each            *)
(* specification leaves the other part's variables unchanged.              *)
(***************************************************************************)
EXTENDS Integers, Sequences, FiniteSets, TLC

(***************************************************************************)
(* Bounds of the model.                                                    *)
(***************************************************************************)
\* The capacity of the payload area.  The program's value is 1920*1080*3
\* (shared_frame_buffer.py:29); the model keeps the comparison and scales
\* the number.
MAX_FRAME_SIZE == 3

(***************************************************************************)
(* Program constants.                                                      *)
(***************************************************************************)
\* time.time() is split into whole seconds and microseconds (lines 172-174)
\* and joined again as sec + usec / 1_000_000 (lines 227, 257).
USEC_PER_SEC == 1000000

\* The flag file is 4 bytes long (struct.pack('I', 1), mmap length 4).
FLAG_SIZE == 4

\* The value _create_flag_file stores: preview enabled.
FLAG_ENABLED == 1

(***************************************************************************)
(*                       SharedFrameBuffer: the state                      *)
(***************************************************************************)
\* The two mailbox objects of the model: the one made with create=True and
\* the one made with create=False on the same path.
Handles == {"owner", "opener"}

VARIABLES
    data_exists,   \* the data file exists at file_path
    region,        \* the content of the data file: [hdr, payload]
    flag_exists,   \* the flag file exists at flag_path
    flag_value,    \* the unsigned integer the flag file's bytes hold
    flag_len,      \* the length of the flag file in bytes
    obj,           \* obj[h]: "absent" (not constructed), "live", "dead"
    mmap_file,     \* mmap_file[h]: "None", "rw", "ro" or "closed"
    flag_mmap,     \* flag_mmap[h]: "None", "open" or "closed"
    ret,           \* what the last call returned
    last_write,    \* history: the header stored by the last successful write
    flag_last,     \* history: the last value written to the flag file
    flag_old,      \* flag_old[h]: the content of the unlinked flag file that
                   \* h's mapping still shows, or NoOld
    wpend,         \* the write_frame() that has stored its header only
    rpend,         \* the read_frame() that has read the header only
    got            \* history: what the last two-step read_frame() obtained

\* The variables of a write_frame() and a read_frame() that run side by side.
concvars == <<wpend, rpend, got>>

mbvars == <<data_exists, region, flag_exists, flag_value, flag_len, obj,
            mmap_file, flag_mmap, ret, last_write, flag_last, flag_old,
            concvars>>

(***************************************************************************)
(*                         CameraCapture: the state                        *)
(***************************************************************************)
\* Bounds: the calls of start() (each makes one cv2.VideoCapture object and
\* at most one thread) and the frames the device delivers.
MaxStarts == 2

MaxGrabs == 3

\* The pixels of a frame that are copied one after the other.
FrameLen == 2

Caps == 1..MaxStarts

Threads == 1..MaxStarts

Objs == 1..MaxGrabs

VARIABLES
    capture,      \* self.capture: 0 (None) or the latest VideoCapture object
    cap_open,     \* cap_open[c]: object c is opened and not released
    is_opened,    \* self.is_opened
    grabbed,      \* self.grabbed
    frame,        \* self.frame: 0 (None) or an array object
    thread,       \* self.thread: 0 (None) or the latest thread
    stop_thread,  \* self.stop_thread
    heap,         \* heap[o]: the pixels of array object o
    ngrabs,       \* the frames the device has delivered so far
    tpc,          \* tpc[t]: where thread t is in _update
    tcap,         \* tcap[t]: the capture object thread t is reading from, or 0
    tframe,       \* tframe[t]: the local frame of thread t, 0 once stored
    cpc,          \* where the calling thread is
    cloc,         \* the calling thread's locals
    cret,         \* what the calling thread's last call returned
    published,    \* history: the pixels of the frames stored in self.frame
    hist          \* history: facts about the calls made so far

camvars == <<capture, cap_open, is_opened, grabbed, frame, thread, stop_thread,
             heap, ngrabs, tpc, tcap, tframe, cpc, cloc, cret, published, hist>>

vars == <<mbvars, camvars>>

(***************************************************************************)
(*                       SharedFrameBuffer: the data                       *)
(***************************************************************************)
\* The six header fields, struct.pack('6I', ...).
Header(w, h, c, sec, usec, size) ==
    [width |-> w, height |-> h, channels |-> c,
     ts_sec |-> sec, ts_usec |-> usec, frame_size |-> size]

\* struct.pack('6I', 0, 0, 0, 0, 0, 0)
ZeroHeader == Header(0, 0, 0, 0, 0, 0)

NonZeroAtCreate == Header(1, 1, 1, 0, 0, 1)

\* The header _create_buffer leaves in a new data file.
InitialHeader == ZeroHeader

\* b'\x00' * MAX_FRAME_SIZE: the payload area of a new data file.
ZeroPayload == [i \in 1..MAX_FRAME_SIZE |-> 0]

\* The frames handed to write_frame.  jlen is the length of the JPEG that
\* cv2.imencode makes of the frame and tag stands for its pixel content;
\* enc_ok is imencode's success flag.
Frames ==
    [width : {1, 2}, height : {1}, channels : {3},
     jlen : 1..(MAX_FRAME_SIZE + 1), tag : {1, 2}, enc_ok : {TRUE}]
    \cup [width : {1}, height : {1}, channels : {3},
          jlen : {1}, tag : {1}, enc_ok : {FALSE}]

\* The frames written while the flag file is under study.
FlagFrames == {F \in Frames : F.width = 1 /\ F.jlen = MAX_FRAME_SIZE /\ F.tag = 1}

\* The frames written while a reader runs beside the writer: the content of
\* each shows in its width, some fill the payload area and some exceed it.
ConcFrames ==
    {F \in Frames : F.enc_ok /\ F.tag = F.width /\ F.jlen >= MAX_FRAME_SIZE}

\* jpeg_buffer.tobytes(): the bytes cv2.imencode produces.
Encode(F) == [i \in 1..F.jlen |-> F.tag]

\* The wall clock readings of time.time(), in microseconds.
Times == {1999999, 2000000}

\* timestamp_sec = int(timestamp)
TsSec(t) == t \div USEC_PER_SEC

\* timestamp_usec = int((timestamp - timestamp_sec) * 1_000_000)
TsUsec(t) == t - TsSec(t) * USEC_PER_SEC

\* timestamp = ts_sec + (ts_usec / 1_000_000), kept in microseconds.
Timestamp(sec, usec) == sec * USEC_PER_SEC + usec

NeverTooLarge(n) == FALSE

\* if frame_size > self.MAX_FRAME_SIZE
TooLarge(n) == n > MAX_FRAME_SIZE

\* mmap.write(data) at position pos of the payload area (position 0 is the
\* first byte after the header): data that does not fit raises ValueError
\* and writes nothing.
Fits(pos, data) == pos + Len(data) <= MAX_FRAME_SIZE

PayloadKept(payload, data) == payload

PayloadWrite(payload, data) ==
    [i \in 1..MAX_FRAME_SIZE |-> IF i <= Len(data) THEN data[i] ELSE payload[i]]

\* mmap.read(n) right after the header: at most the bytes that are there.
PayloadRead(payload, n) ==
    [i \in 1..(IF n <= MAX_FRAME_SIZE THEN n ELSE MAX_FRAME_SIZE) |-> payload[i]]

\* if width == 0 or height == 0 or frame_size == 0 (read_frame)
NoFrameYet(hdr) == hdr.width = 0 \/ hdr.height = 0 \/ hdr.frame_size = 0

\* if width == 0 or height == 0 (read_frame_info)
NoFrameInfo(hdr) == hdr.width = 0 \/ hdr.height = 0

\* np.frombuffer(frame_data).reshape((height, width, channels)) raises
\* ValueError unless the byte count is height * width * channels.
ReshapeOk(data, hdr) == Len(data) = hdr.height * hdr.width * hdr.channels

FlagAnyNonZero(v) == v # 0

\* return flag_value == 1
FlagOn(v) == v = FLAG_ENABLED

\* The value a 4-byte little-endian read of the mapped page gives when the
\* file holds only len bytes: the bytes past the end of the file read as 0.
RECURSIVE Pow256(_)
Pow256(n) == IF n = 0 THEN 1 ELSE 256 * Pow256(n - 1)

MappedFlag(v, len) == IF len >= FLAG_SIZE THEN v ELSE v % Pow256(len)

\* The values an external controller writes to the flag file.
FlagValues == {0, 1, 257}

\* The lengths an external process truncates the flag file to.
TruncLens == {0, 1}

NoRet == [op |-> "none", h |-> "none", ok |-> FALSE, fault |-> FALSE, val |-> <<>>]

Ret(op, h, ok, val) == [op |-> op, h |-> h, ok |-> ok, fault |-> FALSE, val |-> val]

NoWrite == <<>>

\* The content of a flag file: the integer its bytes hold and its length.
FlagFile(v, len) == [value |-> v, len |-> len]

\* h's mapping shows the file that is at flag_path now.
NoOld == FlagFile(0, -1)

FlagAlwaysMappable(exists, len) == TRUE

\* open(self.flag_path, 'r+b') and mmap.mmap(fileno, 4) in _open_flag_file
\* succeed: the file is there and holds at least the 4 bytes to map.
FlagMappable(exists, len) == exists /\ len >= FLAG_SIZE

\* No write_frame() or read_frame() is between its two steps.
NoPend == <<>>

NoGot == <<>>

(***************************************************************************)
(*                    SharedFrameBuffer: the operations                    *)
(***************************************************************************)
MBInit ==
    /\ data_exists = FALSE
    /\ region = [hdr |-> ZeroHeader, payload |-> ZeroPayload]
    /\ flag_exists = FALSE
    /\ flag_value = 0
    /\ flag_len = 0
    /\ obj = [h \in Handles |-> "absent"]
    /\ mmap_file = [h \in Handles |-> "None"]
    /\ flag_mmap = [h \in Handles |-> "None"]
    /\ ret = NoRet
    /\ last_write = NoWrite
    /\ flag_last = 0
    /\ flag_old = [h \in Handles |-> NoOld]
    /\ wpend = NoPend
    /\ rpend = NoPend
    /\ got = NoGot

\* SharedFrameBuffer(file_path, create=True): _create_buffer, then
\* _create_flag_file.
Create ==
    /\ UNCHANGED <<camvars, concvars, flag_old>>
    /\ obj["owner"] = "absent"
    /\ data_exists' = TRUE
    /\ region' = [hdr |-> InitialHeader, payload |-> ZeroPayload]
    /\ flag_exists' = TRUE
    /\ flag_value' = FLAG_ENABLED
    /\ flag_len' = FLAG_SIZE
    /\ flag_last' = FLAG_ENABLED
    /\ obj' = [obj EXCEPT !["owner"] = "live"]
    /\ mmap_file' = [mmap_file EXCEPT !["owner"] = "rw"]
    /\ flag_mmap' = [flag_mmap EXCEPT !["owner"] = "open"]
    /\ last_write' = NoWrite
    /\ ret' = Ret("create", "owner", TRUE, <<>>)

WritableAccess == "rw"

\* access=mmap.ACCESS_READ: how _open_buffer maps the data file.
OpenAccess == "ro"

\* What the mappings of the flag file show once _create_flag_file has run
\* at flag_path: open(flag_path, 'wb') rewrites a file that is there in
\* place; where none is there it makes a new file, and the open mappings of
\* the unlinked one keep showing the unlinked one's content.
OldAfterCreate(old) ==
    [h \in Handles |->
        IF ~flag_exists /\ flag_mmap[h] = "open" /\ old[h] = NoOld
        THEN FlagFile(flag_value, flag_len)
        ELSE old[h]]

\* SharedFrameBuffer(file_path, create=False): _open_buffer, then
\* _open_flag_file.  A missing data file makes _open_buffer raise, and no
\* object comes to exist.  A flag file that cannot be mapped (missing, or
\* shorter than 4 bytes) is made anew by _create_flag_file.
Open ==
    /\ UNCHANGED <<camvars, concvars>>
    /\ obj["opener"] = "absent"
    /\ IF ~data_exists
       THEN /\ ret' = Ret("open", "opener", FALSE, <<>>)
            /\ UNCHANGED <<obj, mmap_file, flag_mmap, flag_exists, flag_value,
                           flag_len, flag_last, flag_old>>
       ELSE /\ obj' = [obj EXCEPT !["opener"] = "live"]
            /\ mmap_file' = [mmap_file EXCEPT !["opener"] = OpenAccess]
            /\ flag_mmap' = [flag_mmap EXCEPT !["opener"] = "open"]
            /\ IF FlagMappable(flag_exists, flag_len)
               THEN UNCHANGED <<flag_exists, flag_value, flag_len, flag_last,
                                flag_old>>
               ELSE /\ flag_exists' = TRUE
                    /\ flag_value' = FLAG_ENABLED
                    /\ flag_len' = FLAG_SIZE
                    /\ flag_last' = FLAG_ENABLED
                    /\ flag_old' = OldAfterCreate(flag_old)
            /\ ret' = Ret("open", "opener", TRUE, <<>>)
    /\ UNCHANGED <<data_exists, region, last_write>>

\* write_frame(frame): the header, then the JPEG bytes, in one forward pass.
\* A closed mapping raises ValueError at seek, a read-only one TypeError at
\* the first write; both are caught and reported as False.
WriteFrame(h, F, t) ==
    /\ UNCHANGED <<camvars, concvars, flag_old>>
    /\ obj[h] = "live"
    /\ LET data == Encode(F)
           size == Len(data)
           hdr  == Header(F.width, F.height, F.channels, TsSec(t), TsUsec(t), size)
       IN  IF mmap_file[h] = "None" \/ ~F.enc_ok \/ TooLarge(size)
                \/ mmap_file[h] # "rw"
           THEN /\ ret' = Ret("write_frame", h, FALSE, <<size>>)
                /\ UNCHANGED <<region, last_write>>
           ELSE IF Fits(0, data)
           THEN /\ region' = [hdr |-> hdr, payload |-> PayloadWrite(region.payload, data)]
                /\ last_write' = <<hdr>>
                /\ ret' = Ret("write_frame", h, TRUE, <<size>>)
           ELSE /\ region' = [region EXCEPT !.hdr = hdr]
                /\ UNCHANGED last_write
                /\ ret' = Ret("write_frame", h, FALSE, <<size>>)
    /\ UNCHANGED <<data_exists, flag_exists, flag_value, flag_len, obj,
                   mmap_file, flag_mmap, flag_last>>

\* write_frame(frame) up to self.mmap_file.write(header), lines 148-187: the
\* checks, and the header is stored.  A read_frame() that has read the
\* header is now running beside a write.
WriteFrameBegin(h, F, t) ==
    /\ UNCHANGED <<camvars, flag_old, got>>
    /\ obj[h] = "live"
    /\ wpend = NoPend
    /\ LET data == Encode(F)
           size == Len(data)
           hdr  == Header(F.width, F.height, F.channels, TsSec(t), TsUsec(t), size)
       IN  IF mmap_file[h] = "None" \/ ~F.enc_ok \/ TooLarge(size)
                \/ mmap_file[h] # "rw"
           THEN /\ ret' = Ret("write_frame", h, FALSE, <<size>>)
                /\ UNCHANGED <<region, wpend, rpend>>
           ELSE /\ region' = [region EXCEPT !.hdr = hdr]
                /\ wpend' = [h |-> h, hdr |-> hdr, data |-> data]
                /\ rpend' = IF rpend = NoPend THEN rpend
                            ELSE [rpend EXCEPT !.overlap = TRUE]
                /\ UNCHANGED ret
    /\ UNCHANGED <<data_exists, flag_exists, flag_value, flag_len, obj,
                   mmap_file, flag_mmap, last_write, flag_last>>

\* self.mmap_file.write(jpeg_bytes), flush, return True (lines 190-193).
WriteFrameEnd ==
    /\ UNCHANGED <<camvars, flag_old, rpend, got>>
    /\ wpend # NoPend
    /\ IF Fits(0, wpend.data)
       THEN /\ region' = [region EXCEPT
                             !.payload = PayloadWrite(region.payload, wpend.data)]
            /\ last_write' = <<wpend.hdr>>
            /\ ret' = Ret("write_frame", wpend.h, TRUE, <<Len(wpend.data)>>)
       ELSE /\ ret' = Ret("write_frame", wpend.h, FALSE, <<Len(wpend.data)>>)
            /\ UNCHANGED <<region, last_write>>
    /\ wpend' = NoPend
    /\ UNCHANGED <<data_exists, flag_exists, flag_value, flag_len, obj,
                   mmap_file, flag_mmap, flag_last>>

\* read_frame() up to the header check, lines 206-217.  rpend.overlap: a
\* write_frame() was between its two writes at some time during this read.
ReadFrameBegin(h) ==
    /\ UNCHANGED <<camvars, flag_old, wpend, got>>
    /\ obj[h] = "live"
    /\ rpend = NoPend
    /\ IF mmap_file[h] \in {"None", "closed"} \/ NoFrameYet(region.hdr)
       THEN /\ ret' = Ret("read_frame", h, FALSE, <<>>)
            /\ UNCHANGED rpend
       ELSE /\ rpend' = [h |-> h, hdr |-> region.hdr, overlap |-> wpend # NoPend]
            /\ UNCHANGED ret
    /\ UNCHANGED <<data_exists, region, flag_exists, flag_value, flag_len, obj,
                   mmap_file, flag_mmap, last_write, flag_last>>

\* frame_data = self.mmap_file.read(frame_size), the reshape and the return
\* (lines 220-229).
ReadFrameEnd ==
    /\ UNCHANGED <<camvars, flag_old, wpend>>
    /\ rpend # NoPend
    /\ LET hdr  == rpend.hdr
           data == PayloadRead(region.payload, hdr.frame_size)
       IN  /\ got' = [hdr |-> hdr, data |-> data, asked |-> hdr.frame_size,
                      overlap |-> rpend.overlap]
           /\ ret' = IF ReshapeOk(data, hdr)
                     THEN Ret("read_frame", rpend.h, TRUE,
                              <<hdr.width, hdr.height, hdr.channels,
                                Timestamp(hdr.ts_sec, hdr.ts_usec)>>)
                     ELSE Ret("read_frame", rpend.h, FALSE, <<>>)
    /\ rpend' = NoPend
    /\ UNCHANGED <<data_exists, region, flag_exists, flag_value, flag_len, obj,
                   mmap_file, flag_mmap, last_write, flag_last>>

\* read_frame(): (frame, timestamp), or (None, None).
ReadFrameResult(h) ==
    LET hdr  == region.hdr
        data == PayloadRead(region.payload, hdr.frame_size)
    IN  IF mmap_file[h] \in {"None", "closed"} THEN Ret("read_frame", h, FALSE, <<>>)
        ELSE IF NoFrameYet(hdr) THEN Ret("read_frame", h, FALSE, <<>>)
        ELSE IF ~ReshapeOk(data, hdr) THEN Ret("read_frame", h, FALSE, <<>>)
        ELSE Ret("read_frame", h, TRUE,
                 <<hdr.width, hdr.height, hdr.channels,
                   Timestamp(hdr.ts_sec, hdr.ts_usec)>>)

ReadFrame(h) ==
    /\ UNCHANGED <<camvars, concvars, flag_old>>
    /\ obj[h] = "live"
    /\ ret' = ReadFrameResult(h)
    /\ UNCHANGED <<data_exists, region, flag_exists, flag_value, flag_len, obj,
                   mmap_file, flag_mmap, last_write, flag_last>>

\* read_frame_info(): the header as a dict, or None.
ReadFrameInfoResult(h) ==
    LET hdr == region.hdr
    IN  IF mmap_file[h] \in {"None", "closed"} THEN Ret("read_frame_info", h, FALSE, <<>>)
        ELSE IF NoFrameInfo(hdr) THEN Ret("read_frame_info", h, FALSE, <<>>)
        ELSE Ret("read_frame_info", h, TRUE,
                 <<hdr.width, hdr.height, hdr.channels,
                   Timestamp(hdr.ts_sec, hdr.ts_usec), hdr.frame_size>>)

ReadFrameInfo(h) ==
    /\ UNCHANGED <<camvars, concvars, flag_old>>
    /\ obj[h] = "live"
    /\ ret' = ReadFrameInfoResult(h)
    /\ UNCHANGED <<data_exists, region, flag_exists, flag_value, flag_len, obj,
                   mmap_file, flag_mmap, last_write, flag_last>>

\* The file h's flag mapping shows: the one at flag_path, or the unlinked
\* one it was made on.
Mapped(h) == IF flag_old[h] = NoOld THEN FlagFile(flag_value, flag_len)
             ELSE flag_old[h]

\* is_preview_enabled().  bool() of a closed mmap raises ValueError, which
\* the handler turns into False.  Reading a mapped page that lies wholly
\* past the end of the file is a bus error: no Python exception, the
\* process is killed.
IsPreviewEnabled(h) ==
    /\ UNCHANGED <<camvars, concvars>>
    /\ obj[h] = "live"
    /\ IF flag_mmap[h] \in {"None", "closed"}
       THEN /\ ret' = Ret("is_preview_enabled", h, FALSE, <<>>)
            /\ UNCHANGED obj
       ELSE IF Mapped(h).len = 0
       THEN /\ ret' = [Ret("is_preview_enabled", h, FALSE, <<>>) EXCEPT !.fault = TRUE]
            /\ obj' = [obj EXCEPT ![h] = "dead"]
       ELSE /\ ret' = Ret("is_preview_enabled", h,
                          FlagOn(MappedFlag(Mapped(h).value, Mapped(h).len)), <<>>)
            /\ UNCHANGED obj
    /\ UNCHANGED <<data_exists, region, flag_exists, flag_value, flag_len,
                   mmap_file, flag_mmap, last_write, flag_last, flag_old>>

\* close(): closes both mappings; closing a closed mapping does nothing.
ClosedMaps(m, h) == [m EXCEPT ![h] = IF m[h] = "None" THEN "None" ELSE "closed"]

Close(h) ==
    /\ UNCHANGED <<camvars, concvars>>
    /\ obj[h] = "live"
    /\ mmap_file' = ClosedMaps(mmap_file, h)
    /\ flag_mmap' = ClosedMaps(flag_mmap, h)
    /\ flag_old' = [flag_old EXCEPT ![h] = NoOld]
    /\ ret' = Ret("close", h, TRUE, <<>>)
    /\ UNCHANGED <<data_exists, region, flag_exists, flag_value, flag_len, obj,
                   last_write, flag_last>>

\* cleanup(): close(), then both files are removed if they exist.  The
\* content stays reachable through the mappings other objects hold.
Cleanup(h) ==
    /\ UNCHANGED <<camvars, concvars>>
    /\ obj[h] = "live"
    /\ mmap_file' = ClosedMaps(mmap_file, h)
    /\ flag_mmap' = ClosedMaps(flag_mmap, h)
    /\ flag_old' = [flag_old EXCEPT ![h] = NoOld]
    /\ data_exists' = FALSE
    /\ flag_exists' = FALSE
    /\ ret' = Ret("cleanup", h, TRUE, <<>>)
    /\ UNCHANGED <<region, flag_value, flag_len, obj, last_write, flag_last>>

\* The external controller stores a value in the flag file.
ExternalSetFlag(v) ==
    /\ UNCHANGED <<camvars, concvars, flag_old>>
    /\ flag_exists
    /\ flag_value' = v
    /\ flag_len' = FLAG_SIZE
    /\ flag_last' = v
    /\ ret' = Ret("external", "none", TRUE, <<>>)
    /\ UNCHANGED <<data_exists, region, flag_exists, obj, mmap_file, flag_mmap,
                   last_write>>

\* An external process truncates the flag file to n bytes.
ExternalTruncateFlag(n) ==
    /\ UNCHANGED <<camvars, concvars, flag_old>>
    /\ flag_exists
    /\ flag_len > n
    /\ flag_len' = n
    /\ flag_value' = MappedFlag(flag_value, n)
    /\ ret' = Ret("external", "none", TRUE, <<>>)
    /\ UNCHANGED <<data_exists, region, flag_exists, obj, mmap_file, flag_mmap,
                   last_write, flag_last>>

\* An external process removes the flag file.  The mappings made on it stay
\* valid and keep showing its content.
ExternalDeleteFlag ==
    /\ UNCHANGED <<camvars, concvars, flag_old>>
    /\ flag_exists
    /\ flag_exists' = FALSE
    /\ ret' = Ret("external", "none", TRUE, <<>>)
    /\ UNCHANGED <<data_exists, region, flag_value, flag_len, obj, mmap_file,
                   flag_mmap, last_write, flag_last>>

(***************************************************************************)
(*                         CameraCapture: the data                         *)
(***************************************************************************)
\* The pixels of the n-th frame the device delivers.
Pixels(n) == [i \in 1..FrameLen |-> n]

NoPixels == [i \in 1..FrameLen |-> 0]

ReusedFrameObj(n) == 1

\* capture.read() returns a new array object for every frame.
NewFrameObj(n) == n

\* The threads that are running _update.
Alive == {t \in Threads : tpc[t] \notin {"unborn", "done"}}

NoLoc == [g |-> FALSE, f |-> 0, ref |-> 0, buf |-> NoPixels, i |-> 0]

CNoRet == [op |-> "none", ok |-> FALSE, ref |-> 0, buf |-> NoPixels]

CRet(op, ok, ref, buf) == [op |-> op, ok |-> ok, ref |-> ref, buf |-> buf]

StoresAlways(g) == TRUE

\* if grabbed: (line 88) - the loop stores what it read.
StoresFrame(g) == g

\* hist.stopped: stop() has returned and start() was not called since;
\* hist.start_failed: the last start() returned False;
\* hist.started: the last start() returned True and stop() was not called
\* since; hist.last: the grab number of the frame the last successful
\* read_frame() since the last start() returned; hist.decreased: some
\* read_frame() since the last start() returned a frame grabbed before the
\* frame the call before it returned; hist.again: stop() has returned twice
\* or more and start() was not called since.
NoHist == [stopped |-> FALSE, start_failed |-> FALSE, started |-> FALSE,
           last |-> 0, decreased |-> FALSE, again |-> FALSE]

CamInit ==
    /\ capture = 0
    /\ cap_open = [c \in Caps |-> FALSE]
    /\ is_opened = FALSE
    /\ grabbed = FALSE
    /\ frame = 0
    /\ thread = 0
    /\ stop_thread = FALSE
    /\ heap = [o \in Objs |-> NoPixels]
    /\ ngrabs = 0
    /\ tpc = [t \in Threads |-> "unborn"]
    /\ tcap = [t \in Threads |-> 0]
    /\ tframe = [t \in Threads |-> 0]
    /\ cpc = "idle"
    /\ cloc = NoLoc
    /\ cret = CNoRet
    /\ published = {}
    /\ hist = NoHist

(***************************************************************************)
(*                     CameraCapture: start(), lines 40-81                 *)
(***************************************************************************)
\* self.capture = cv2.VideoCapture(self.camera_id); a device that does not
\* open raises RuntimeError and start() returns False.  Otherwise
\* self.is_opened = True.
StartOpen ==
    /\ UNCHANGED mbvars
    /\ cpc = "idle"
    /\ capture < MaxStarts
    /\ capture' = capture + 1
    /\ \E opens \in BOOLEAN :
         IF opens
         THEN /\ cap_open' = [cap_open EXCEPT ![capture + 1] = TRUE]
              /\ is_opened' = TRUE
              /\ cpc' = "start_read"
              /\ cret' = CNoRet
              /\ hist' = NoHist
         ELSE /\ cpc' = "idle"
              /\ cret' = CRet("start", FALSE, 0, NoPixels)
              /\ hist' = [NoHist EXCEPT !.start_failed = TRUE]
              /\ UNCHANGED <<cap_open, is_opened>>
    /\ cloc' = NoLoc
    /\ UNCHANGED <<grabbed, frame, thread, stop_thread, heap, ngrabs, tpc,
                   tcap, tframe, published>>

\* The priming read, self.capture.read(): a frame in a new array, or
\* (False, None).
StartRead ==
    /\ UNCHANGED mbvars
    /\ cpc = "start_read"
    /\ \/ /\ ngrabs < MaxGrabs
          /\ ngrabs' = ngrabs + 1
          /\ heap' = [heap EXCEPT ![NewFrameObj(ngrabs + 1)] = Pixels(ngrabs + 1)]
          /\ cloc' = [cloc EXCEPT !.g = TRUE, !.f = NewFrameObj(ngrabs + 1)]
       \/ /\ cloc' = [cloc EXCEPT !.g = FALSE, !.f = 0]
          /\ UNCHANGED <<heap, ngrabs>>
    /\ cpc' = "start_set_grabbed"
    /\ UNCHANGED <<capture, cap_open, is_opened, grabbed, frame, thread,
                   stop_thread, tpc, tcap, tframe, cret, published, hist>>

\* self.grabbed, self.frame = ...: first self.grabbed,
StartSetGrabbed ==
    /\ UNCHANGED mbvars
    /\ cpc = "start_set_grabbed"
    /\ grabbed' = cloc.g
    /\ cpc' = "start_set_frame"
    /\ UNCHANGED <<capture, cap_open, is_opened, frame, thread, stop_thread,
                   heap, ngrabs, tpc, tcap, tframe, cloc, cret, published, hist>>

\* then self.frame.
StartSetFrame ==
    /\ UNCHANGED mbvars
    /\ cpc = "start_set_frame"
    /\ frame' = cloc.f
    /\ published' = IF cloc.f = 0 THEN published ELSE published \cup {heap[cloc.f]}
    /\ cpc' = "start_check"
    /\ UNCHANGED <<capture, cap_open, is_opened, grabbed, thread, stop_thread,
                   heap, ngrabs, tpc, tcap, tframe, cloc, cret, hist>>

\* if not self.grabbed: return False.  Otherwise self.stop_thread = False,
\* a new thread runs _update, and start() returns True.
StartFinish ==
    /\ UNCHANGED mbvars
    /\ cpc = "start_check"
    /\ IF ~grabbed
       THEN /\ cret' = CRet("start", FALSE, 0, NoPixels)
            /\ hist' = [hist EXCEPT !.start_failed = TRUE]
            /\ UNCHANGED <<stop_thread, thread, tpc>>
       ELSE /\ stop_thread' = FALSE
            /\ thread' = thread + 1
            /\ tpc' = [tpc EXCEPT ![thread + 1] = "loop"]
            /\ cret' = CRet("start", TRUE, 0, NoPixels)
            /\ hist' = [hist EXCEPT !.started = TRUE]
    /\ cpc' = "idle"
    /\ cloc' = NoLoc
    /\ UNCHANGED <<capture, cap_open, is_opened, grabbed, frame, heap, ngrabs,
                   tcap, tframe, published>>

(***************************************************************************)
(*                   CameraCapture: _update(), lines 83-95                 *)
(***************************************************************************)
\* while not self.stop_thread and self.is_opened.  The two fields are read
\* in one step: stop() sets stop_thread first and clears is_opened last,
\* start() sets is_opened first and clears stop_thread last, so every pair of
\* values two separate reads can see is also seen by one read.
UpdateLoop(t) ==
    /\ UNCHANGED mbvars
    /\ tpc[t] = "loop"
    /\ tpc' = [tpc EXCEPT ![t] = IF ~stop_thread /\ is_opened THEN "check" ELSE "done"]
    /\ UNCHANGED <<capture, cap_open, is_opened, grabbed, frame, thread,
                   stop_thread, heap, ngrabs, tcap, tframe, cpc, cloc, cret,
                   published, hist>>

\* if self.capture.isOpened(): ... else: break
UpdateCheck(t) ==
    /\ UNCHANGED mbvars
    /\ tpc[t] = "check"
    /\ tpc' = [tpc EXCEPT ![t] = IF cap_open[capture] THEN "call" ELSE "done"]
    /\ UNCHANGED <<capture, cap_open, is_opened, grabbed, frame, thread,
                   stop_thread, heap, ngrabs, tcap, tframe, cpc, cloc, cret,
                   published, hist>>

\* self.capture.read() is entered on the object self.capture names now.
UpdateCall(t) ==
    /\ UNCHANGED mbvars
    /\ tpc[t] = "call"
    /\ tcap' = [tcap EXCEPT ![t] = capture]
    /\ tpc' = [tpc EXCEPT ![t] = "reading"]
    /\ UNCHANGED <<capture, cap_open, is_opened, grabbed, frame, thread,
                   stop_thread, heap, ngrabs, tframe, cpc, cloc, cret,
                   published, hist>>

\* The device read returns: a frame in a new array while the object is
\* open, or (False, None).  if grabbed: the two stores follow; else:
\* time.sleep(0.01).
UpdateReturn(t) ==
    /\ UNCHANGED mbvars
    /\ tpc[t] = "reading"
    /\ \/ /\ cap_open[tcap[t]]
          /\ ngrabs < MaxGrabs
          /\ ngrabs' = ngrabs + 1
          /\ heap' = [heap EXCEPT ![NewFrameObj(ngrabs + 1)] = Pixels(ngrabs + 1)]
          /\ tframe' = [tframe EXCEPT ![t] = NewFrameObj(ngrabs + 1)]
          /\ tpc' = [tpc EXCEPT ![t] = IF StoresFrame(TRUE) THEN "set_grabbed"
                                       ELSE "sleep"]
       \/ /\ tpc' = [tpc EXCEPT ![t] = IF StoresFrame(FALSE) THEN "set_grabbed"
                                       ELSE "sleep"]
          /\ UNCHANGED <<heap, ngrabs, tframe>>
    /\ tcap' = [tcap EXCEPT ![t] = 0]
    /\ UNCHANGED <<capture, cap_open, is_opened, grabbed, frame, thread,
                   stop_thread, cpc, cloc, cret, published, hist>>

\* time.sleep(0.01) is over, and the loop test is next.
UpdateSleep(t) ==
    /\ UNCHANGED mbvars
    /\ tpc[t] = "sleep"
    /\ tpc' = [tpc EXCEPT ![t] = "loop"]
    /\ UNCHANGED <<capture, cap_open, is_opened, grabbed, frame, thread,
                   stop_thread, heap, ngrabs, tcap, tframe, cpc, cloc, cret,
                   published, hist>>

\* self.grabbed = grabbed: the local, True when the read gave a frame.
UpdateSetGrabbed(t) ==
    /\ UNCHANGED mbvars
    /\ tpc[t] = "set_grabbed"
    /\ grabbed' = (tframe[t] # 0)
    /\ tpc' = [tpc EXCEPT ![t] = "set_frame"]
    /\ UNCHANGED <<capture, cap_open, is_opened, frame, thread, stop_thread,
                   heap, ngrabs, tcap, tframe, cpc, cloc, cret, published, hist>>

\* self.frame = frame
UpdateSetFrame(t) ==
    /\ UNCHANGED mbvars
    /\ tpc[t] = "set_frame"
    /\ frame' = tframe[t]
    /\ published' = IF tframe[t] = 0 THEN published
                    ELSE published \cup {heap[tframe[t]]}
    /\ tpc' = [tpc EXCEPT ![t] = "loop"]
    /\ tframe' = [tframe EXCEPT ![t] = 0]
    /\ UNCHANGED <<capture, cap_open, is_opened, grabbed, thread, stop_thread,
                   heap, ngrabs, tcap, cpc, cloc, cret, hist>>

(***************************************************************************)
(*                 CameraCapture: read_frame(), lines 97-112               *)
(***************************************************************************)
ReadFail == CRet("read_frame", FALSE, 0, NoPixels)

\* The record of a returned frame, the n-th grabbed.
Returned(h, n) == [h EXCEPT !.last = n, !.decreased = h.decreased \/ n < h.last]

\* if not self.is_opened: return False, None
ReadCheckOpened ==
    /\ UNCHANGED mbvars
    /\ cpc = "idle"
    /\ IF ~is_opened
       THEN /\ cret' = ReadFail
            /\ cpc' = "idle"
       ELSE /\ cret' = CNoRet
            /\ cpc' = "read_grabbed"
    /\ cloc' = NoLoc
    /\ UNCHANGED <<capture, cap_open, is_opened, grabbed, frame, thread,
                   stop_thread, heap, ngrabs, tpc, tcap, tframe, published, hist>>

\* if self.grabbed and ...
ReadCheckGrabbed ==
    /\ UNCHANGED mbvars
    /\ cpc = "read_grabbed"
    /\ IF ~grabbed
       THEN /\ cret' = ReadFail
            /\ cpc' = "idle"
       ELSE /\ cpc' = "read_none"
            /\ UNCHANGED cret
    /\ UNCHANGED <<capture, cap_open, is_opened, grabbed, frame, thread,
                   stop_thread, heap, ngrabs, tpc, tcap, tframe, cloc,
                   published, hist>>

\* ... and self.frame is not None
ReadCheckFrame ==
    /\ UNCHANGED mbvars
    /\ cpc = "read_none"
    /\ IF frame = 0
       THEN /\ cret' = ReadFail
            /\ cpc' = "idle"
       ELSE /\ cpc' = "read_ref"
            /\ UNCHANGED cret
    /\ UNCHANGED <<capture, cap_open, is_opened, grabbed, frame, thread,
                   stop_thread, heap, ngrabs, tpc, tcap, tframe, cloc,
                   published, hist>>

\* self.frame.copy(): self.frame is read once more (None here would raise
\* AttributeError), and its pixels are copied into a new array.
ReadTakeRef ==
    /\ UNCHANGED mbvars
    /\ cpc = "read_ref"
    /\ IF frame = 0
       THEN /\ cret' = CRet("read_frame_raised", FALSE, 0, NoPixels)
            /\ cpc' = "idle"
            /\ UNCHANGED cloc
       ELSE /\ cloc' = [cloc EXCEPT !.ref = frame, !.i = 1]
            /\ cpc' = "read_copy"
            /\ UNCHANGED cret
    /\ UNCHANGED <<capture, cap_open, is_opened, grabbed, frame, thread,
                   stop_thread, heap, ngrabs, tpc, tcap, tframe, published, hist>>

\* What read_frame() hands out: a new array (ref 0) holding the copy.
Handout(ref, buf) == [ref |-> 0, buf |-> buf]

\* One pixel is copied; after the last one, return True, <the copy>.
ReadCopy ==
    /\ UNCHANGED mbvars
    /\ cpc = "read_copy"
    /\ LET buf == [cloc.buf EXCEPT ![cloc.i] = heap[cloc.ref][cloc.i]]
           out == Handout(cloc.ref, buf)
       IN  IF cloc.i < FrameLen
           THEN /\ cloc' = [cloc EXCEPT !.buf = buf, !.i = cloc.i + 1]
                /\ UNCHANGED <<cret, cpc, hist>>
           ELSE /\ cret' = CRet("read_frame", TRUE, out.ref, out.buf)
                /\ hist' = Returned(hist, buf[1])
                /\ cpc' = "idle"
                /\ cloc' = NoLoc
    /\ UNCHANGED <<capture, cap_open, is_opened, grabbed, frame, thread,
                   stop_thread, heap, ngrabs, tpc, tcap, tframe, published>>

(***************************************************************************)
(*                    CameraCapture: stop(), lines 114-126                 *)
(***************************************************************************)
\* self.stop_thread = True
StopSignal ==
    /\ UNCHANGED mbvars
    /\ cpc = "idle"
    /\ stop_thread' = TRUE
    /\ cpc' = IF thread # 0 THEN "stop_join" ELSE "stop_release"
    /\ cret' = CNoRet
    /\ hist' = [hist EXCEPT !.started = FALSE]
    /\ UNCHANGED <<capture, cap_open, is_opened, grabbed, frame, thread, heap,
                   ngrabs, tpc, tcap, tframe, cloc, published>>

\* The join has waited its full second only if the thread did not get to
\* the loop test in that time: it is inside the device read.
JoinTimesOut(t) == tpc[t] = "reading"

\* self.thread.join(timeout=1.0): returns when the thread has ended, or
\* after the timeout with the thread still running.
StopJoin ==
    /\ UNCHANGED mbvars
    /\ cpc = "stop_join"
    /\ tpc[thread] = "done" \/ JoinTimesOut(thread)
    /\ cpc' = "stop_release"
    /\ UNCHANGED <<capture, cap_open, is_opened, grabbed, frame, thread,
                   stop_thread, heap, ngrabs, tpc, tcap, tframe, cloc, cret,
                   published, hist>>

NotReleased(co, c) == co

\* if self.capture is not None: self.capture.release()
Released(co, c) == IF c # 0 THEN [co EXCEPT ![c] = FALSE] ELSE co

StopRelease ==
    /\ UNCHANGED mbvars
    /\ cpc = "stop_release"
    /\ cap_open' = Released(cap_open, capture)
    /\ cpc' = "stop_close"
    /\ UNCHANGED <<capture, is_opened, grabbed, frame, thread, stop_thread,
                   heap, ngrabs, tpc, tcap, tframe, cloc, cret, published, hist>>

\* self.is_opened = False, and stop() returns.
StopFinish ==
    /\ UNCHANGED mbvars
    /\ cpc = "stop_close"
    /\ is_opened' = FALSE
    /\ cpc' = "idle"
    /\ cret' = CRet("stop", TRUE, 0, NoPixels)
    /\ hist' = [hist EXCEPT !.stopped = TRUE, !.again = hist.stopped]
    /\ UNCHANGED <<capture, cap_open, grabbed, frame, thread, stop_thread,
                   heap, ngrabs, tpc, tcap, tframe, cloc, published>>

(***************************************************************************)
(*                           The specifications                            *)
(***************************************************************************)
Init == MBInit /\ CamInit

\* The data file: SharedFrameBuffer objects made with create=True and
\* create=False writing and reading frames.
Next ==
    \/ Create
    \/ Open
    \/ \E h \in Handles, F \in Frames, t \in Times : WriteFrame(h, F, t)
    \/ \E h \in Handles : ReadFrame(h)
    \/ \E h \in Handles : ReadFrameInfo(h)
    \/ \E h \in Handles : Close(h)
    \/ \E h \in Handles : Cleanup(h)

Spec == Init /\ [][Next]_vars

\* The flag file: the same objects, the external controller, and an
\* external process that truncates the file.
NextFlag ==
    \/ Create
    \/ Open
    \/ \E h \in Handles, F \in FlagFrames, t \in Times : WriteFrame(h, F, t)
    \/ \E h \in Handles : ReadFrame(h)
    \/ \E h \in Handles : ReadFrameInfo(h)
    \/ \E h \in Handles : IsPreviewEnabled(h)
    \/ \E h \in Handles : Close(h)
    \/ \E h \in Handles : Cleanup(h)
    \/ \E v \in FlagValues : ExternalSetFlag(v)
    \/ \E n \in TruncLens : ExternalTruncateFlag(n)
    \/ ExternalDeleteFlag

SpecFlag == Init /\ [][NextFlag]_vars

\* The header contents the two readers are compared on: each of width,
\* height and frame_size zero or not.
Headers ==
    {Header(w, h, 3, TsSec(t), TsUsec(t), n) :
        w \in {0, 1}, h \in {0, 1}, t \in Times, n \in 0..MAX_FRAME_SIZE}

\* The payload contents that go with them.
Payloads == {ZeroPayload, [i \in 1..MAX_FRAME_SIZE |-> 1]}

\* A data file of any header content, mapped by an object made with
\* create=True and by one made with create=False.
InitHeader ==
    /\ CamInit
    /\ data_exists = TRUE
    /\ region \in [hdr : Headers, payload : Payloads]
    /\ flag_exists = TRUE
    /\ flag_value = FLAG_ENABLED
    /\ flag_len = FLAG_SIZE
    /\ obj = [h \in Handles |-> "live"]
    /\ mmap_file = [h \in Handles |-> IF h = "owner" THEN "rw" ELSE "ro"]
    /\ flag_mmap = [h \in Handles |-> "open"]
    /\ ret = NoRet
    /\ last_write = NoWrite
    /\ flag_last = FLAG_ENABLED
    /\ flag_old = [h \in Handles |-> NoOld]
    /\ wpend = NoPend
    /\ rpend = NoPend
    /\ got = NoGot

\* The two readers applied to it.
NextHeader ==
    \/ \E h \in Handles : ReadFrame(h)
    \/ \E h \in Handles : ReadFrameInfo(h)

SpecHeader == InitHeader /\ [][NextHeader]_vars

\* The data file with a writer and a reader running side by side: each
\* write_frame() and read_frame() takes two steps, the header and the payload.
NextConc ==
    \/ Create
    \/ Open
    \/ \E h \in Handles, F \in ConcFrames, t \in Times : WriteFrameBegin(h, F, t)
    \/ WriteFrameEnd
    \/ \E h \in Handles : ReadFrameBegin(h)
    \/ ReadFrameEnd

SpecConc == Init /\ [][NextConc]_vars

\* The capture handle: one calling thread and the _update threads.
NextCamera ==
    \/ StartOpen
    \/ StartRead
    \/ StartSetGrabbed
    \/ StartSetFrame
    \/ StartFinish
    \/ \E t \in Threads : UpdateLoop(t)
    \/ \E t \in Threads : UpdateCheck(t)
    \/ \E t \in Threads : UpdateCall(t)
    \/ \E t \in Threads : UpdateReturn(t)
    \/ \E t \in Threads : UpdateSleep(t)
    \/ \E t \in Threads : UpdateSetGrabbed(t)
    \/ \E t \in Threads : UpdateSetFrame(t)
    \/ ReadCheckOpened
    \/ ReadCheckGrabbed
    \/ ReadCheckFrame
    \/ ReadTakeRef
    \/ ReadCopy
    \/ StopSignal
    \/ StopJoin
    \/ StopRelease
    \/ StopFinish

SpecCamera == Init /\ [][NextCamera]_vars

\* A step of thread t in _update.
ThreadStep(t) ==
    \/ UpdateLoop(t)
    \/ UpdateCheck(t)
    \/ UpdateCall(t)
    \/ UpdateReturn(t)
    \/ UpdateSleep(t)
    \/ UpdateSetGrabbed(t)
    \/ UpdateSetFrame(t)

\* A step of the calling thread inside a call of start(), read_frame() or
\* stop() that it has entered.
CallerStep ==
    \/ StartRead
    \/ StartSetGrabbed
    \/ StartSetFrame
    \/ StartFinish
    \/ ReadCheckGrabbed
    \/ ReadCheckFrame
    \/ ReadTakeRef
    \/ ReadCopy
    \/ StopJoin
    \/ StopRelease
    \/ StopFinish

\* Every thread that can take a step takes one in the end: the threads are
\* scheduled fairly and every device read returns.  The calls themselves
\* (start, read_frame, stop) are made or not as the caller likes.
SpecCameraLive ==
    /\ Init
    /\ [][NextCamera]_vars
    /\ \A t \in Threads : WF_vars(ThreadStep(t))
    /\ WF_vars(CallerStep)

(***************************************************************************)
(*                      The claims about the mailbox                       *)
(***************************************************************************)
MapOpen(h) == mmap_file[h] \in {"rw", "ro"}

\* C1 (as claimed): a read_frame() on an open mapping after a successful
\* write_frame(F), with no other write in between, succeeds and yields F's
\* width, height and channel count and the timestamp that write stored.
C1_RoundTrip ==
    (ret.op = "read_frame" /\ MapOpen(ret.h) /\ last_write # NoWrite) =>
        LET w == last_write[1]
        IN  /\ ret.ok
            /\ ret.val = <<w.width, w.height, w.channels,
                           Timestamp(w.ts_sec, w.ts_usec)>>

\* C2: a write_frame whose compressed payload exceeds MAX_FRAME_SIZE reports
\* failure and leaves every byte of the region, header and payload, as it
\* was before the call.
C2_OversizeWriteChangesNothing ==
    [][(ret'.op = "write_frame" /\ ret'.val[1] > MAX_FRAME_SIZE) =>
           (~ret'.ok /\ region' = region)]_vars

\* C2's case: an oversize write on the writable mapping has just failed and
\* the frame stored before it is still in the region.
C2_Witness ==
    /\ ret.op = "write_frame"
    /\ ret.val[1] > MAX_FRAME_SIZE
    /\ ~ret.ok
    /\ mmap_file[ret.h] = "rw"
    /\ last_write # NoWrite
    /\ region.hdr = last_write[1]

\* C3: from its creation to the first successful write the mailbox has an
\* all-zero header, and every read_frame() and read_frame_info() reports
\* that there is no frame.
C3_FreshMailboxIsEmpty ==
    (obj["owner"] # "absent" /\ last_write = NoWrite) =>
        /\ region.hdr = ZeroHeader
        /\ ret.op \in {"read_frame", "read_frame_info"} => ~ret.ok

\* C3's case: a read on the open, never written mailbox reported no frame.
C3_Witness ==
    /\ last_write = NoWrite
    /\ ret.op = "read_frame_info"
    /\ ~ret.ok
    /\ mmap_file[ret.h] = "rw"

\* C13 (as claimed): only the object made with create=True removes the data
\* file or the flag file; no operation on an object made with create=False
\* removes either.
C13_OnlyCreatorDeletes ==
    [][((data_exists /\ ~data_exists') \/ (flag_exists /\ ~flag_exists')) =>
           ret'.h = "owner"]_vars

\* C14: in every state of the region, the states between the header write
\* and the payload write of a write_frame() included, the header's frame_size
\* is at most MAX_FRAME_SIZE, and a read_frame() that takes frame_size from
\* the header asks for no byte past the end of the region.
C14_SizeWithinCapacity ==
    /\ region.hdr.frame_size <= MAX_FRAME_SIZE
    /\ rpend # NoPend => rpend.hdr.frame_size <= MAX_FRAME_SIZE
    /\ got # NoGot => (got.asked <= MAX_FRAME_SIZE /\ Len(got.data) = got.asked)

\* C14's case: a write_frame() has stored a header that uses the whole
\* capacity and not yet its payload, an oversize write_frame() was refused
\* before, and a read_frame() has taken the new header.
C14_Witness ==
    /\ wpend # NoPend
    /\ region.hdr = wpend.hdr
    /\ region.hdr.frame_size = MAX_FRAME_SIZE
    /\ rpend # NoPend
    /\ rpend.hdr = wpend.hdr
    /\ ret.op = "write_frame"
    /\ ~ret.ok
    /\ ret.val[1] > MAX_FRAME_SIZE

\* The bytes read are the payload of the frame the header read belongs to.
Whole(hdr, data) == \A i \in 1..Len(data) : data[i] = hdr.width

\* C15: reads are not tear-free.  A read_frame() running beside a
\* write_frame() can obtain the header of one written frame with payload
\* bytes of another (C15_Witness); a read_frame() that combines a header and
\* payload bytes of different frames always ran beside a write_frame().
C15_TornOnlyBesideAWrite ==
    (got # NoGot /\ ~Whole(got.hdr, got.data)) => got.overlap

\* C15's case: read_frame() obtained the header of one written frame and
\* payload bytes that another written frame stored.
C15_Witness ==
    /\ got # NoGot
    /\ got.overlap
    /\ Len(got.data) = MAX_FRAME_SIZE
    /\ \A i \in 1..Len(got.data) : got.data[i] \notin {0, got.hdr.width}

\* C16 (as claimed): after any sequence of completed write_frame() calls
\* every byte of the payload area past the first frame_size bytes is zero.
C16_ZeroPadded ==
    \A i \in 1..MAX_FRAME_SIZE : i > region.hdr.frame_size => region.payload[i] = 0

\* C17 (as claimed): for every header content, read_frame_info() reports
\* that there is no frame exactly when the header validation of read_frame()
\* reports no frame yet (width, height or frame_size is zero).
C17_SameValidation ==
    (ret.op = "read_frame_info" /\ MapOpen(ret.h)) =>
        (ret.ok <=> ~NoFrameYet(region.hdr))

\* C21: every write_frame() on the object made with create=False reports
\* failure and leaves the data region as it was, and every step that changes
\* the data region is a call on the object made with create=True.
C21_OpenerNeverWrites ==
    [][/\ (ret'.op = "write_frame" /\ ret'.h = "opener") =>
             (~ret'.ok /\ region' = region)
       /\ region' # region => ret'.h = "owner"]_vars

\* C21's case: a write_frame() of a frame that encodes and fits has failed
\* on the read-only mapping, and the frame the creator wrote before is still
\* in the region.
C21_Witness ==
    /\ ret.op = "write_frame"
    /\ ret.h = "opener"
    /\ ~ret.ok
    /\ ret.val = <<2>>
    /\ mmap_file["opener"] = "ro"
    /\ last_write # NoWrite
    /\ region.hdr = last_write[1]

(***************************************************************************)
(*                     The claims about the flag file                      *)
(***************************************************************************)
\* C4 (as claimed): after any sequence of external writes to the flag and
\* mailbox operations, is_preview_enabled() returns true exactly when the
\* last value written to the flag is 1.
C4_FlagReflectsLastWrite ==
    (ret.op = "is_preview_enabled" /\ flag_len = FLAG_SIZE) =>
        (ret.ok <=> flag_last = FLAG_ENABLED)

\* C4 (amended): the flag is 1 right after create; while the object's flag
\* mapping is open on the file that is at flag_path (the file was not removed
\* and made anew since) and the flag file keeps its 4 bytes,
\* is_preview_enabled() returns true exactly when the last value written to
\* the flag is 1; once close() or cleanup() has closed the mapping it returns
\* false.
C4_FlagReflectsLastWriteWhileOpen ==
    /\ ret.op = "create" => (flag_value = FLAG_ENABLED /\ flag_len = FLAG_SIZE)
    /\ (ret.op = "is_preview_enabled" /\ flag_len = FLAG_SIZE
          /\ flag_old[ret.h] = NoOld) =>
           IF flag_mmap[ret.h] = "open"
           THEN ret.ok <=> flag_last = FLAG_ENABLED
           ELSE ~ret.ok

\* C4's case: the controller wrote a value other than 0 and 1, and
\* is_preview_enabled() on an open mapping returned false.
C4_Witness ==
    /\ ret.op = "is_preview_enabled"
    /\ flag_mmap[ret.h] = "open"
    /\ flag_len = FLAG_SIZE
    /\ flag_last \notin {0, FLAG_ENABLED}
    /\ ~ret.ok

\* C5 (as claimed): whenever the flag cannot be read (no mapping, a closed
\* mapping, a truncated flag file) is_preview_enabled() returns false and no
\* error escapes.
C5_FailsClosed ==
    (ret.op = "is_preview_enabled"
       /\ (flag_mmap[ret.h] \in {"None", "closed"} \/ flag_len < FLAG_SIZE)) =>
        (~ret.ok /\ ~ret.fault)

\* C11: SharedFrameBuffer(path, create=False) on an existing data file whose
\* flag file is missing succeeds; afterwards a 4-byte flag file holding 1
\* exists, and the data file and its content are as they were.
C11_OpenMakesMissingFlag ==
    [][(ret'.op = "open" /\ obj["opener"] = "absent" /\ data_exists
          /\ ~flag_exists) =>
           /\ ret'.ok
           /\ obj'["opener"] = "live"
           /\ flag_mmap'["opener"] = "open"
           /\ flag_exists'
           /\ flag_value' = FLAG_ENABLED
           /\ flag_len' = FLAG_SIZE
           /\ data_exists'
           /\ region' = region]_vars

\* C11's case: the open has made a new flag file while the creating object
\* still maps the removed one, and a frame written before is in the region.
C11_Witness ==
    /\ ret.op = "open"
    /\ ret.ok
    /\ flag_old["owner"] # NoOld
    /\ flag_exists
    /\ flag_value = FLAG_ENABLED
    /\ last_write # NoWrite
    /\ region.hdr = last_write[1]

\* C19 (as claimed): while the flag file exists, no write_frame(),
\* read_frame(), read_frame_info(), is_preview_enabled() or close(), and no
\* construction with create=False, changes what the flag file holds.
C19_FlagReadOnlyFromApi ==
    [][(flag_exists
          /\ ret'.op \in {"write_frame", "read_frame", "read_frame_info",
                          "is_preview_enabled", "close", "open"}) =>
           /\ flag_exists'
           /\ flag_value' = flag_value
           /\ flag_len' = flag_len]_vars

(***************************************************************************)
(*                   The claims about the capture handle                   *)
(***************************************************************************)
\* C6: under every interleaving of _update with read_frame(), a successful
\* read_frame() returns a new array whose pixels are, in full, those of one
\* frame that the priming read or a background thread stored in self.frame.
C6_ReturnsWholePublishedCopy ==
    (cret.op = "read_frame" /\ cret.ok) =>
        (cret.ref = 0 /\ cret.buf \in published)

\* C6's case: read_frame() returned a frame while a background thread
\* replaced self.frame after the reference was taken.
C6_Witness ==
    /\ cret.op = "read_frame"
    /\ cret.ok
    /\ Alive # {}
    /\ frame # 0
    /\ heap[frame] # cret.buf

\* C7 (as claimed): the frames successive successful read_frame() calls
\* return after a start() are in non-decreasing grab order.
C7_NonDecreasingOrder == ~hist.decreased

\* C8 (as claimed): once stop() has returned, read_frame() returns nothing
\* and no background thread of the handle is running.
C8_StoppedMeansNoThread ==
    hist.stopped =>
        /\ Alive = {}
        /\ cret.op = "read_frame" => ~cret.ok

\* C9 (as claimed): at most one background thread is alive, and exactly one
\* while the handle is open after a successful start().
C9_OneThread ==
    /\ Cardinality(Alive) <= 1
    /\ hist.started => Cardinality(Alive) = 1

\* C10 (as claimed): after a start() that reported failure, every
\* read_frame() until the next start() returns nothing.
C10_FailedStartReadsNothing ==
    (hist.start_failed /\ cret.op = "read_frame") => ~cret.ok

\* C12: stop() can be called in every state of the handle (never started,
\* start() failed, already stopped) and returns without an error, leaving
\* the handle not open, the stop requested and the device released; a
\* stop() on a stopped handle changes none of these fields.
C12_StopIdempotent ==
    [][/\ cret'.op = "stop" =>
             /\ cret'.ok
             /\ ~is_opened'
             /\ stop_thread'
             /\ capture' # 0 => ~cap_open'[capture']
       /\ (hist.stopped /\ hist'.stopped) =>
             UNCHANGED <<is_opened, stop_thread, capture, cap_open, thread>>]_vars

\* C12's case: a second stop() has returned on a handle that was started.
C12_Witness ==
    /\ cret.op = "stop"
    /\ hist.again
    /\ capture # 0
    /\ thread # 0
    /\ ~is_opened
    /\ stop_thread

\* C18: a device read that fails in the background loop changes neither
\* self.frame nor self.grabbed and is not reported to the caller; the thread
\* sleeps and goes back to the loop test, which goes on to the next read
\* while the handle is open and not stopped; the loop stores only frames it
\* has read, so read_frame() keeps returning the frame stored last.
C18_FailedReadIsTransient ==
    [][\A t \in Threads :
          /\ (tpc[t] = "reading" /\ tpc'[t] # "reading" /\ tframe'[t] = 0) =>
                /\ tpc'[t] = "sleep"
                /\ frame' = frame
                /\ grabbed' = grabbed
                /\ is_opened' = is_opened
                /\ cret' = cret
          /\ (tpc[t] = "sleep" /\ tpc'[t] # "sleep") => tpc'[t] = "loop"
          /\ (tpc[t] = "loop" /\ tpc'[t] # "loop" /\ ~stop_thread /\ is_opened) =>
                tpc'[t] = "check"
          /\ tpc'[t] \in {"set_grabbed", "set_frame"} => tframe'[t] # 0]_vars

\* C18's case: a device read of the loop has failed and the thread sleeps
\* before its next try; the handle is open and holds the frame stored last,
\* the frame read_frame() returned.
C18_Witness ==
    /\ \E t \in Threads : tpc[t] = "sleep"
    /\ hist.started
    /\ Cardinality(Alive) = 1
    /\ is_opened
    /\ grabbed
    /\ frame # 0
    /\ cret.op = "read_frame"
    /\ cret.ok
    /\ cret.buf = heap[frame]

\* The calling thread is inside stop().
InStop == cpc \in {"stop_join", "stop_release", "stop_close"}

\* C20 (as claimed): stop() always returns, and every background thread
\* that is running when stop() is called ends in the end, also when the join
\* has timed out.
C20_StopEndsLoop ==
    /\ InStop ~> (cpc = "idle")
    /\ \A t \in Threads : (InStop /\ t \in Alive) ~> (tpc[t] = "done")

\* C22 (as claimed): between calls, is_opened is true only if the last
\* start() reported success and stop() was not called since; a start() that
\* fails leaves is_opened false.
C22_OpenedOnlyAfterSuccess ==
    cpc = "idle" => (is_opened => hist.started)

=============================================================================
